---------------------------- MODULE Spec2Model ----------------------------
(***************************************************************************)
(* A model of craft_text_detector/craft_utils.py: the decoding of a text   *)
(* heatmap and a link heatmap into boxes (getDetBoxes_core), the adjacency *)
(* vector word_id (compare_boxes and the linking loop), the polygon fitter *)
(* (getPoly_core), the orchestrator (getDetBoxes) and the rescale helper   *)
(* (adjustResultCoordinates).                                              *)
(*                                                                         *)
(* Heat values and thresholds are counted in tenths (0.7 is 7), image      *)
(* points are <<x, y>> with y growing downwards, a binary image is the set *)
(* of its foreground pixels, and Python's None is the empty tuple.         *)
(***************************************************************************)
EXTENDS Integers, Sequences, FiniteSets, TLC

VARIABLES
    textmap,              \* input: pixel -> text score, in tenths
    linkmap,              \* input: pixel -> link score, in tenths
    link_rows,            \* input: the number of rows of linkmap
    text_threshold,       \* input, in tenths
    link_threshold,       \* input, in tenths
    low_text,             \* input, in tenths
    poly,                 \* input: whether polygons are wanted
    entry,                \* the function that was called
    pc,                   \* the position of the running call
    labels,               \* pixel -> label id of the combined mask
    k,                    \* loop counter (label id, then box index)
    det,                  \* the boxes found so far
    mapper,               \* box index -> label id
    num_characters,       \* per box
    avg_character_sizes,  \* per box, a fraction [num, den]
    word_id,              \* the adjacency vector
    polys,                \* per box, a polygon or None
    args,                 \* arguments of a helper called on its own
    ret                   \* what that helper returned

inputs == <<textmap, linkmap, link_rows, text_threshold, link_threshold, low_text,
            poly, entry>>

vars == <<inputs, pc, labels, k, det, mapper, num_characters,
          avg_character_sizes, word_id, polys, args, ret>>

---------------------------------------------------------------------------
(* Bounds of the model.                                                    *)

ImgW == 6
ImgH == 8
MaxStack == 3
MaxGap == 2

---------------------------------------------------------------------------
(* Arithmetic helpers.                                                     *)

Abs(n) == IF n < 0 THEN -n ELSE n

Min2(a, b) == IF a <= b THEN a ELSE b

Max2(a, b) == IF a >= b THEN a ELSE b

SetMin(S) == CHOOSE m \in S : \A n \in S : m <= n

SetMax(S) == CHOOSE m \in S : \A n \in S : m >= n

\* floor(sqrt(n)) for n >= 0
Isqrt(n) == CHOOSE r \in 0..(n + 1) : r * r <= n /\ (r + 1) * (r + 1) > n

RECURSIVE SumSeq(_)
SumSeq(s) == IF s = <<>> THEN 0 ELSE Head(s) + SumSeq(Tail(s))

None == <<>>

---------------------------------------------------------------------------
(* Images.                                                                 *)

Pix == (0..(ImgW - 1)) \X (0..(ImgH - 1))

\* cv2.threshold(src, thresh, 1, 0): THRESH_BINARY, 1 where src > thresh
threshold(img, thresh) == {p \in Pix : img[p] > thresh}

Nbr4(p) == {<<p[1] - 1, p[2]>>, <<p[1] + 1, p[2]>>,
            <<p[1], p[2] - 1>>, <<p[1], p[2] + 1>>}

RECURSIVE Flood(_, _, _)
Flood(frontier, seen, mask) ==
    LET new == ((UNION {Nbr4(p) : p \in frontier}) \cap mask) \ seen
    IN  IF new = {} THEN seen ELSE Flood(new, seen \cup new, mask)

Raster(p) == p[2] * ImgW + p[1]

FirstPixel(S) == CHOOSE p \in S : \A q \in S : Raster(p) <= Raster(q)

\* the 4-connected components of a mask, in the order of their first pixel
\* in raster order: component i gets label i
RECURSIVE Components(_)
Components(mask) ==
    IF mask = {} THEN <<>>
    ELSE LET p == FirstPixel(mask)
             c == Flood({p}, {p}, mask)
         IN  <<c>> \o Components(mask \ c)

\* cv2.connectedComponentsWithStats(mask, connectivity=4): the label image
connectedComponents(mask) ==
    LET cs == Components(mask)
    IN  [p \in Pix |-> IF p \in mask
                       THEN CHOOSE i \in 1..Len(cs) : p \in cs[i]
                       ELSE 0]

\* nLabels: the background label 0 is counted
nLabelsOf(lab) == SetMax({lab[p] : p \in Pix}) + 1

LabelPixels(lab, id) == {p \in Pix : lab[p] = id}

\* stats[k]: CC_STAT_LEFT, CC_STAT_TOP, CC_STAT_WIDTH, CC_STAT_HEIGHT, CC_STAT_AREA
StatsOf(S) ==
    LET xs == {p[1] : p \in S}
        ys == {p[2] : p \in S}
    IN  [left |-> SetMin(xs), top |-> SetMin(ys),
         width |-> SetMax(xs) - SetMin(xs) + 1,
         height |-> SetMax(ys) - SetMin(ys) + 1,
         area |-> Cardinality(S)]

---------------------------------------------------------------------------
(* Boxes: a box is a sequence of 4 points; box[i + 1] is Python's box[i].  *)

\* the squared Euclidean distance: d(cord1, cord2) compares as its square
d2(a, b) == (a[1] - b[1]) * (a[1] - b[1]) + (a[2] - b[2]) * (a[2] - b[2])

\* np.argmin(box[:, 1]): the first index (from 0) of the least y
ArgMinY(box) == SetMin({i \in 0..3 : \A j \in 0..3 : box[i + 1][2] <= box[j + 1][2]})

\* box.sum(axis=1).argmin(): the first index (from 0) of the least x + y
ArgMinSum(box) ==
    SetMin({i \in 0..3 : \A j \in 0..3 :
                box[i + 1][1] + box[i + 1][2] <= box[j + 1][1] + box[j + 1][2]})

\* box[n:] + box[:n] for n in 0..3
RotateFrom(box, n) == [i \in 1..4 |-> box[((i - 1 + n) % 4) + 1]]

\* np.roll(box, 4 - startidx, 0): row i of the result is row i + startidx
Roll(box) == RotateFrom(box, ArgMinSum(box))

\* sort_box, line 194: whether the vertex of least y is taken as top-left
AyminIsTopLeft(box) ==
    LET aymin == ArgMinY(box)
    IN  d2(box[aymin + 1], box[((aymin + 1) % 4) + 1])
            > d2(box[((aymin + 2) % 4) + 1], box[((aymin + 1) % 4) + 1])

sort_box(box) ==
    LET tl == IF AyminIsTopLeft(box) THEN ArgMinY(box)
              ELSE (ArgMinY(box) - 1) % 4
    IN  RotateFrom(box, tl)

---------------------------------------------------------------------------
(* One iteration of the per-label loop of getDetBoxes_core.                *)

\* a size filter with the wrong limit
SizeFilteredFive(size) == size < 5

\* line 223: the size filter
SizeFiltered(size) == size < 10

\* line 227: the text-threshold filter; S is the label's pixel set
TextFiltered(tmap, S, thr) == SetMax({tmap[p] : p \in S}) < thr

\* lines 231-235: the label's mask without the link-only pixels
Segmap(lab, id, text_score, link_score) ==
    LabelPixels(lab, id) \ (link_score \ text_score)

\* lines 238-240: word_chars, the label count of the mask, background included
WordChars(seg) == Len(Components(seg)) + 1

\* line 242: word_stats[:, 4], the areas of all labels of the mask, background first
WordAreas(seg) ==
    LET cs == Components(seg)
    IN  <<Cardinality(Pix \ seg)>> \o [i \in 1..Len(cs) |-> Cardinality(cs[i])]

\* line 242: np.mean(word_stats[:, 4]) as a fraction
AvgCharacterSize(seg) ==
    LET areas == WordAreas(seg)
    IN  [num |-> SumSeq(areas), den |-> Len(areas)]

\* line 247: int(math.sqrt(size * min(w, h) / (w * h)) * 2)
Niter(st) ==
    SetMax({n \in 0..(2 * (st.width + st.height) + 2) :
                n * n * st.width * st.height
                    <= 4 * st.area * Min2(st.width, st.height)})

\* lines 248-259: cv2.dilate with a (1 + niter) square kernel anchored at its
\* centre, inside the window [sy:ey, sx:ex] clipped to the image
Dilate(seg, st, niter) ==
    LET sx == Max2(st.left - niter, 0)
        sy == Max2(st.top - niter, 0)
        ex == IF st.left + st.width + niter + 1 >= ImgW THEN ImgW
              ELSE st.left + st.width + niter + 1
        ey == IF st.top + st.height + niter + 1 >= ImgH THEN ImgH
              ELSE st.top + st.height + niter + 1
        a  == (1 + niter) \div 2
        lo == a - niter
        InWin(p) == sx <= p[1] /\ p[1] < ex /\ sy <= p[2] /\ p[2] < ey
    IN  UNION {{q \in {<<p[1] + dx, p[2] + dy>> : dx \in lo..a, dy \in lo..a} : InWin(q)} :
                    p \in {p \in seg : InWin(p)}}

\* lines 271-273: the axis-aligned bounding box of the points
BoundingBox(pts) ==
    LET l == SetMin({p[1] : p \in pts})
        r == SetMax({p[1] : p \in pts})
        t == SetMin({p[2] : p \in pts})
        b == SetMax({p[2] : p \in pts})
    IN  <<<<l, t>>, <<r, t>>, <<r, b>>, <<l, b>>>>

\* whether the convex hull of the points is their bounding rectangle
HullIsBox(pts) == \A i \in 1..4 : BoundingBox(pts)[i] \in pts

\* lines 264-265: cv2.boxPoints(cv2.minAreaRect(points)) for points whose hull
\* is their bounding rectangle: its corners in clockwise order, from the
\* corner the library's angle convention starts at
boxPoints(pts, start) == RotateFrom(BoundingBox(pts), start)

\* line 270: abs(1 - max(w, h) / (min(w, h) + 1e-5)) <= 0.1, on squared lengths
IsDiamond(box) ==
    LET w2 == d2(box[1], box[2])
        h2 == d2(box[2], box[3])
    IN  /\ Max2(w2, h2) > 0
        /\ 100 * Max2(w2, h2) <= 121 * Min2(w2, h2)

ZeroBox == <<<<0, 0>>, <<0, 0>>, <<0, 0>>, <<0, 0>>>>

\* lines 262-280: the box of a dilated mask
MakeBox(pts, start) ==
    LET box0 == boxPoints(pts, start)
        box1 == IF IsDiamond(box0) THEN BoundingBox(pts) ELSE box0
    IN  sort_box(Roll(box1))

---------------------------------------------------------------------------
(* compare_boxes and the linking loop.                                     *)

\* permutations(range(4), 2): the ordered pairs of distinct vertex indices
Perm2 == {ij \in (0..3) \X (0..3) : ij[1] # ij[2]}

\* dy / (dx if dx != 0 else 0.001) as a fraction p / q
Slope(dy, dx) == IF dx # 0 THEN [p |-> dy, q |-> dx] ELSE [p |-> 1000 * dy, q |-> 1]

\* abs(slope1 - slope2) < slope_thresh, slope_thresh = 0.1
SlopesClose(s1, s2) == 10 * Abs(s1.p * s2.q - s2.p * s1.q) < Abs(s1.q * s2.q)

\* np.sum(abs((a + b) / 2 - (c + e) / 2)) < min_edge_distance, min_edge_distance = 10
MidpointsClose(a, b, c, e) ==
    Abs((a[1] + b[1]) - (c[1] + e[1])) + Abs((a[2] + b[2]) - (c[2] + e[2])) < 20

\* a centroid test the wrong way round
IsBelow(box1, box2) ==
    box1[1][2] + box1[2][2] + box1[3][2] + box1[4][2]
        > box2[1][2] + box2[2][2] + box2[3][2] + box2[4][2]

\* line 160: boxcentroid1[1] < boxcentroid2[1], on the sums of the four y
IsAbove(box1, box2) ==
    box1[1][2] + box1[2][2] + box1[3][2] + box1[4][2]
        < box2[1][2] + box2[2][2] + box2[3][2] + box2[4][2]

\* lines 165-174: the test of one (i, j), (k, l); y differences are box1's and
\* x differences box2's in both slopes, and box2's midpoint is that of j and k
EdgesMatch(box1, box2, i, j, kk, l) ==
    LET slope1 == Slope(box1[i + 1][2] - box1[j + 1][2], box2[i + 1][1] - box2[j + 1][1])
        slope2 == Slope(box1[kk + 1][2] - box1[l + 1][2], box2[kk + 1][1] - box2[l + 1][1])
    IN  /\ SlopesClose(slope1, slope2)
        /\ MidpointsClose(box1[i + 1], box1[j + 1], box2[j + 1], box2[kk + 1])

\* compare_boxes: "True", "False", or "None" when the loops end without a match
compare_boxes(box1, box2) ==
    IF IsAbove(box1, box2)
    THEN IF \E ij \in Perm2 : \E kl \in Perm2 :
                EdgesMatch(box1, box2, ij[1], ij[2], kl[1], kl[2])
         THEN "True" ELSE "None"
    ELSE "False"

\* a linking loop that keeps the first match instead of the last
RECURSIVE LinkScanFirstMatch(_, _, _, _)
LinkScanFirstMatch(boxes, id1, id2, cur) ==
    IF id2 >= Len(boxes) THEN cur
    ELSE IF id1 # id2 /\ compare_boxes(boxes[id1 + 1], boxes[id2 + 1]) = "True"
    THEN id2
    ELSE LinkScanFirstMatch(boxes, id1, id2 + 1, cur)

\* lines 285-290: the inner loop for one id1, from id2 on; cur is word_id[id1]
RECURSIVE LinkScan(_, _, _, _)
LinkScan(boxes, id1, id2, cur) ==
    IF id2 >= Len(boxes) THEN cur
    ELSE LinkScan(boxes, id1, id2 + 1,
                  IF id1 # id2 /\ compare_boxes(boxes[id1 + 1], boxes[id2 + 1]) = "True"
                  THEN id2 ELSE cur)

---------------------------------------------------------------------------
(* The inputs of getDetBoxes: scenes of text rectangles stacked vertically, *)
(* with or without link pixels.                                            *)

TextShapes == {<<5, 2>>, <<2, 5>>, <<4, 4>>, <<5, 1>>}

\* heat values, in tenths
Levels == [low |-> 5, high |-> 8, link |-> 6]

Rect(x0, y0, w, h) ==
    {p \in Pix : x0 <= p[1] /\ p[1] < x0 + w /\ y0 <= p[2] /\ p[2] < y0 + h}

\* a scene: n rectangles of one shape, the i-th at row y0 + (i - 1) * (h + gap)
Scenes ==
    {sc \in [shape : TextShapes, x0 : 0..(ImgW - 1), y0 : 0..(ImgH - 1),
             n : 1..MaxStack, gap : 1..MaxGap,
             low : 0..MaxStack, link : {"none", "bridge", "blob"}] :
        /\ sc.x0 + sc.shape[1] <= ImgW
        /\ sc.y0 + sc.n * sc.shape[2] + (sc.n - 1) * sc.gap <= ImgH
        /\ sc.n = 1 => sc.gap = 1 /\ sc.link # "bridge"
        /\ sc.low \in {0, 1, sc.n}}

SceneRect(sc, i) ==
    Rect(sc.x0, sc.y0 + (i - 1) * (sc.shape[2] + sc.gap), sc.shape[1], sc.shape[2])

\* the text heatmap of a scene: rectangle sc.low is at Levels.low, the others at Levels.high
SceneText(sc) ==
    [p \in Pix |->
        IF \E i \in 1..sc.n : p \in SceneRect(sc, i)
        THEN IF sc.low > 0 /\ p \in SceneRect(sc, sc.low) THEN Levels.low ELSE Levels.high
        ELSE 0]

\* the link heatmap of a scene: nothing, two columns that bridge the gaps
\* (overlapping a row of text on each side), or a blob in the bottom rows
SceneLink(sc) ==
    [p \in Pix |->
        CASE sc.link = "none" -> 0
          [] sc.link = "bridge" ->
                IF /\ sc.x0 <= p[1] /\ p[1] < sc.x0 + 2
                   /\ sc.y0 + sc.shape[2] - 1 <= p[2]
                   /\ p[2] <= sc.y0 + (sc.n - 1) * (sc.shape[2] + sc.gap)
                   /\ \A i \in 1..sc.n :
                        p \in SceneRect(sc, i) =>
                            \/ p[2] = sc.y0 + (i - 1) * (sc.shape[2] + sc.gap)
                            \/ p[2] = sc.y0 + (i - 1) * (sc.shape[2] + sc.gap) + sc.shape[2] - 1
                THEN Levels.link ELSE 0
          [] sc.link = "blob" ->
                IF p \in Rect(0, ImgH - 2, 5, 2) THEN Levels.link ELSE 0]

\* <<text_threshold, link_threshold, low_text>>: the defaults 0.7, 0.4, 0.4 and
\* values outside [0, 1]
ThresholdChoices ==
    {<<7, 4, 4>>, <<12, 4, 4>>, <<-1, 4, 4>>, <<7, 12, 4>>, <<7, 4, -1>>}

ZeroMap == [p \in Pix |-> 0]

Idle ==
    /\ labels = ZeroMap /\ k = 0 /\ det = <<>> /\ mapper = <<>>
    /\ num_characters = <<>> /\ avg_character_sizes = <<>>
    /\ word_id = <<>> /\ polys = <<>>

Init ==
    /\ \E sc \in Scenes :
        /\ textmap = SceneText(sc)
        /\ \/ linkmap = SceneLink(sc) /\ link_rows = ImgH
           \/ /\ sc.n = 1 /\ sc.link = "none" /\ sc.low = 0 /\ sc.x0 = 0
              /\ linkmap = ZeroMap /\ link_rows = ImgH + 1
    /\ \E th \in ThresholdChoices :
        text_threshold = th[1] /\ link_threshold = th[2] /\ low_text = th[3]
    /\ poly \in BOOLEAN
    /\ entry = "getDetBoxes"
    /\ pc = "start"
    /\ Idle
    /\ args = <<>> /\ ret = None

---------------------------------------------------------------------------
(* getDetBoxes_core and getDetBoxes as steps.                              *)

text_score == threshold(textmap, low_text)

link_score == threshold(linkmap, link_threshold)

\* a combined mask that leaves the link pixels out
text_score_only == text_score

\* line 212: np.clip(text_score + link_score, 0, 1)
text_score_comb == text_score \cup link_score

\* a labelling step that rejects thresholds outside [0, 1]
LabelValidating ==
    /\ pc = "start"
    /\ IF \/ link_rows # ImgH
          \/ \E t \in {text_threshold, link_threshold, low_text} : t < 0 \/ t > 10
       THEN pc' = "raised" /\ UNCHANGED <<labels, k>>
       ELSE /\ labels' = connectedComponents(text_score_comb)
            /\ k' = 1
            /\ pc' = "labels"
    /\ UNCHANGED <<inputs, det, mapper, num_characters,
                   avg_character_sizes, word_id, polys, args, ret>>

\* lines 209-219: binarize and label; the sum of two arrays of different
\* shapes raises
Label ==
    /\ pc = "start"
    /\ IF link_rows # ImgH
       THEN pc' = "raised" /\ UNCHANGED <<labels, k>>
       ELSE /\ labels' = connectedComponents(text_score_comb)
            /\ k' = 1
            /\ pc' = "labels"
    /\ UNCHANGED <<inputs, det, mapper, num_characters,
                   avg_character_sizes, word_id, polys, args, ret>>

\* an iteration that counts the characters before the text-threshold filter
LabelStepAppendFirst ==
    /\ pc = "labels"
    /\ k < nLabelsOf(labels)
    /\ LET S == LabelPixels(labels, k)
           st == StatsOf(S)
           seg == Segmap(labels, k, text_score, link_score)
           pts == Dilate(seg, st, Niter(st))
       IN  IF SizeFiltered(st.area)
           THEN /\ k' = k + 1
                /\ UNCHANGED <<pc, det, mapper, num_characters, avg_character_sizes>>
           ELSE /\ num_characters' = Append(num_characters, WordChars(seg))
                /\ avg_character_sizes' = Append(avg_character_sizes, AvgCharacterSize(seg))
                /\ IF TextFiltered(textmap, S, text_threshold) \/ pts = {}
                   THEN k' = k + 1 /\ UNCHANGED <<pc, det, mapper>>
                   ELSE \E box \in {MakeBox(pts, start) : start \in 0..3} :
                            /\ det' = Append(det, box)
                            /\ mapper' = Append(mapper, k)
                            /\ k' = k + 1
                            /\ pc' = pc
    /\ UNCHANGED <<inputs, labels, word_id, polys, args, ret>>

\* lines 220-281: one iteration of the loop over the labels
LabelStep ==
    /\ pc = "labels"
    /\ k < nLabelsOf(labels)
    /\ LET S == LabelPixels(labels, k)
           st == StatsOf(S)
           seg == Segmap(labels, k, text_score, link_score)
           nchars == WordChars(seg)
           avg == AvgCharacterSize(seg)
           pts == Dilate(seg, st, Niter(st))
       IN  IF SizeFiltered(st.area) \/ TextFiltered(textmap, S, text_threshold)
           THEN /\ k' = k + 1
                /\ UNCHANGED <<pc, det, mapper, num_characters, avg_character_sizes>>
           ELSE /\ num_characters' = Append(num_characters, nchars)
                /\ avg_character_sizes' = Append(avg_character_sizes, avg)
                /\ IF pts = {}
                   THEN \* cv2.minAreaRect of no points: the library raises, or
                        \* returns the all-zero rectangle
                        \E raises \in BOOLEAN :
                            IF raises
                            THEN pc' = "raised" /\ UNCHANGED <<k, det, mapper>>
                            ELSE /\ det' = Append(det, sort_box(Roll(ZeroBox)))
                                 /\ mapper' = Append(mapper, k)
                                 /\ k' = k + 1
                                 /\ pc' = pc
                   ELSE \E box \in {MakeBox(pts, start) : start \in 0..3} :
                            /\ det' = Append(det, box)
                            /\ mapper' = Append(mapper, k)
                            /\ k' = k + 1
                            /\ pc' = pc
    /\ UNCHANGED <<inputs, labels, word_id, polys, args, ret>>

\* line 283: word_id = [-1] * len(det)
LinkInit ==
    /\ pc = "labels"
    /\ k = nLabelsOf(labels)
    /\ word_id' = [i \in 1..Len(det) |-> -1]
    /\ k' = 0
    /\ pc' = "link"
    /\ UNCHANGED <<inputs, labels, det, mapper, num_characters,
                   avg_character_sizes, polys, args, ret>>

\* lines 284-290: one iteration of the outer linking loop, id1 = k
LinkStep ==
    /\ pc = "link"
    /\ k < Len(det)
    /\ word_id' = [word_id EXCEPT ![k + 1] = LinkScan(det, k, 0, word_id[k + 1])]
    /\ k' = k + 1
    /\ UNCHANGED <<inputs, pc, labels, det, mapper, num_characters,
                   avg_character_sizes, polys, args, ret>>

\* lines 291, 483-501: getDetBoxes_core returns; getDetBoxes fills polys with
\* None or goes on to getPoly_core
CoreReturn ==
    /\ pc = "link"
    /\ k = Len(det)
    /\ IF poly
       THEN polys' = <<>> /\ pc' = "poly"
       ELSE polys' = [i \in 1..Len(det) |-> None] /\ pc' = "done"
    /\ k' = 0
    /\ UNCHANGED <<inputs, labels, det, mapper, num_characters,
                   avg_character_sizes, word_id, args, ret>>

---------------------------------------------------------------------------
(* getPoly_core. The straightened strip word_label is what the library's   *)
(* warpPerspective returns; it is read column by column, so a strip is a   *)
(* sequence of columns [cnt, sy, ey]: the number of foreground rows, the   *)
(* first and the last of them. A polygon is kept as the pair of end-cap    *)
(* radius indices it was built with; its 14 points are not computed.       *)

num_cp == 5

tot_seg == num_cp * 2 + 1

\* lines 305-308: int(np.linalg.norm(a - b) + 1)
EdgeLen(a, b) == Isqrt(d2(a, b)) + 1

\* a size filter that asks for both edges to be short
TooSmallBoth(w, h) == w < 10 /\ h < 10

\* line 309: the size filter
TooSmall(w, h) == w < 10 \/ h < 10

Cross(a, b, c) == (b[1] - a[1]) * (c[2] - a[2]) - (b[2] - a[2]) * (c[1] - a[1])

\* three corners on one line: no perspective transform maps the box onto
\* the upright rectangle, and what np.linalg.inv does with M is not fixed
Degenerate(box) ==
    \E i \in 1..4 : Cross(box[i], box[(i % 4) + 1], box[((i + 1) % 4) + 1]) = 0

\* lines 330-339: cp, the columns with at least 2 foreground rows
ColumnScan(strip) ==
    LET Wide(c) == strip[c[1] + 1].cnt >= 2
    IN  SelectSeq([i \in 1..Len(strip) |-> <<i - 1, strip[i].sy, strip[i].ey>>], Wide)

\* lines 331-339: max_len
MaxLenOf(cp) == SetMax({-1} \cup {cp[i][3] - cp[i][2] + 1 : i \in 1..Len(cp)})

\* line 342: h * max_len_ratio < max_len, max_len_ratio = 0.7
TooThick(h, max_len) == 7 * h < 10 * max_len

\* lines 355-386: the pivot loop from cp[i] on; st holds seg_num, num_sec,
\* prev_h, pp (x and twice cy, or None) and seg_height; seg_w is w / tot_seg
RECURSIVE PivotLoop(_, _, _, _)
PivotLoop(cp, i, st, w) ==
    IF i > Len(cp) THEN st
    ELSE
      LET x == cp[i][1]
          cur_h == cp[i][3] - cp[i][2] + 1
          adv == (st.seg_num + 1) * w <= tot_seg * x /\ st.seg_num <= tot_seg
      IN  IF adv /\ st.num_sec = 0 THEN st
          ELSE
            LET s1 == IF adv
                      THEN [st EXCEPT !.seg_num = @ + 1, !.num_sec = 0, !.prev_h = -1]
                      ELSE st
                s2 == [s1 EXCEPT !.num_sec = @ + 1]
                idx == ((s2.seg_num - 1) \div 2) + 1
            IN  IF s2.seg_num % 2 = 0 THEN PivotLoop(cp, i + 1, s2, w)
                ELSE IF s2.prev_h < cur_h
                THEN PivotLoop(cp, i + 1,
                               [s2 EXCEPT !.pp[idx] = <<x, cp[i][2] + cp[i][3]>>,
                                          !.seg_height[idx] = cur_h,
                                          !.prev_h = cur_h], w)
                ELSE PivotLoop(cp, i + 1, s2, w)

Pivots(cp, w) ==
    PivotLoop(cp, 1, [seg_num |-> 0, num_sec |-> 0, prev_h |-> -1,
                      pp |-> [i \in 1..num_cp |-> None],
                      seg_height |-> [i \in 1..num_cp |-> 0]], w)

\* line 394: None in pp or seg_w < np.max(seg_height) * 0.25
TooFewPivots(pv, w) ==
    \/ \E i \in 1..num_cp : pv.pp[i] = None
    \/ 4 * w < tot_seg * SetMax({pv.seg_height[i] : i \in 1..num_cp})

\* lines 421-458: the radii are 0.5 + 0.2 * i for i in 0..7; an end is found at
\* the first i whose line misses the foreground (i >= free) or with
\* r + 2 * step_r >= max_r; -1 when the loop ends without (isSppFound False)
EndCap(free) ==
    LET found == {i \in 0..7 : i >= free \/ (5 + 2 * i) + 4 >= 20}
    IN  IF found = {} THEN -1 ELSE SetMin(found)

\* lines 303-477: the polygon of one box, or None
getPolyOne(box, strip, inv_raises, sfree, efree) ==
    LET w == EdgeLen(box[1], box[2])
        h == EdgeLen(box[2], box[3])
        cp == ColumnScan(strip)
        pv == Pivots(cp, w)
    IN  IF TooSmall(w, h) THEN None
        ELSE IF inv_raises THEN None
        ELSE IF TooThick(h, MaxLenOf(cp)) THEN None
        ELSE IF TooFewPivots(pv, w) THEN None
        ELSE IF EndCap(sfree) = -1 \/ EndCap(efree) = -1 THEN None
        ELSE <<EndCap(sfree), EndCap(efree)>>

\* a ribbon of th rows from row 0 in a strip of w columns, empty on gap
Ribbon(w, th, gap) ==
    [i \in 1..w |-> IF (i - 1) \in gap \/ th < 1
                    THEN [cnt |-> 0, sy |-> 0, ey |-> -1]
                    ELSE [cnt |-> th, sy |-> 0, ey |-> th - 1]]

\* the strips tried for a box of w by h
Strips(w, h) ==
    {Ribbon(w, th, gap) :
        th \in {1, 2, 3, (7 * h) \div 10, ((7 * h) \div 10) + 1, h},
        gap \in {{}, 0..(w \div tot_seg), {w \div 2}, (w \div 2)..(w - 1)}}

FreeChoices == {0, 8}

\* lines 303-477: one iteration of the loop over the boxes
PolyStep ==
    /\ pc = "poly"
    /\ k < Len(det)
    /\ LET box == det[k + 1]
           w == EdgeLen(box[1], box[2])
           h == EdgeLen(box[2], box[3])
       IN  \E one \in {getPolyOne(box, strip, inv_raises, sfree, efree) :
                         strip \in (IF TooSmall(w, h) THEN {<<>>} ELSE Strips(w, h)),
                         inv_raises \in (IF Degenerate(box) THEN BOOLEAN ELSE {FALSE}),
                         sfree \in FreeChoices, efree \in FreeChoices} :
               polys' = Append(polys, one)
    /\ k' = k + 1
    /\ UNCHANGED <<inputs, pc, labels, det, mapper, num_characters,
                   avg_character_sizes, word_id, args, ret>>

\* lines 479, 502-504: getPoly_core returns and getDetBoxes returns the record
PolyReturn ==
    /\ pc = "poly"
    /\ k = Len(det)
    /\ pc' = "done"
    /\ UNCHANGED <<inputs, labels, k, det, mapper, num_characters,
                   avg_character_sizes, word_id, polys, args, ret>>

Next ==
    \/ Label
    \/ LabelStep
    \/ LinkInit
    \/ LinkStep
    \/ CoreReturn
    \/ PolyStep
    \/ PolyReturn

Spec == Init /\ [][Next]_vars

---------------------------------------------------------------------------
(* getPoly_core called on boxes of its own.                                *)

MaxBoxes == 2

\* the rectangle with corners a, a + u, a + u + v, a + v
Quad(a, u, v) ==
    <<a, <<a[1] + u[1], a[2] + u[2]>>,
      <<a[1] + u[1] + v[1], a[2] + u[2] + v[2]>>, <<a[1] + v[1], a[2] + v[2]>>>>

\* upright boxes with edges of 8, 9 and more, a rotated box with an edge
\* of sqrt(90), and a box with three corners on one line
PolyBoxes ==
    {Quad(<<0, 0>>, <<wh[1], 0>>, <<0, wh[2]>>) :
        wh \in {<<8, 12>>, <<9, 12>>, <<12, 9>>, <<12, 8>>, <<22, 12>>}}
    \cup {Quad(<<0, 3>>, <<9, -3>>, <<4, 12>>),
          <<<<0, 0>>, <<12, 0>>, <<24, 0>>, <<0, 12>>>>}

RECURSIVE SeqsUpTo(_, _)
SeqsUpTo(S, n) ==
    IF n = 0 THEN {<<>>}
    ELSE SeqsUpTo(S, n - 1) \cup
         {Append(q, e) : q \in {r \in SeqsUpTo(S, n - 1) : Len(r) = n - 1}, e \in S}

InitPoly ==
    /\ textmap = ZeroMap /\ linkmap = ZeroMap /\ link_rows = ImgH
    /\ text_threshold = 7 /\ link_threshold = 4 /\ low_text = 4
    /\ poly = TRUE
    /\ entry = "getPoly_core"
    /\ pc = "poly"
    /\ labels = ZeroMap /\ k = 0
    /\ det \in SeqsUpTo(PolyBoxes, MaxBoxes)
    /\ mapper = [i \in 1..Len(det) |-> i]
    /\ num_characters = <<>> /\ avg_character_sizes = <<>> /\ word_id = <<>>
    /\ polys = <<>>
    /\ args = <<>> /\ ret = None

NextPoly ==
    \/ PolyStep
    \/ PolyReturn

SpecPoly == InitPoly /\ [][NextPoly]_vars

\* getDetBoxes on heatmaps, or getPoly_core on boxes of its own
InitDetPoly == Init \/ InitPoly

SpecDetPoly == InitDetPoly /\ [][Next]_vars

---------------------------------------------------------------------------
(* compare_boxes called on two boxes of its own.                           *)

\* what the per-label loop appends for an upright rectangle
BoxAt(x, y, w, h) == sort_box(Roll(<<<<x, y>>, <<x + w, y>>, <<x + w, y + h>>, <<x, y + h>>>>))

CompareBoxChoices ==
    {BoxAt(x, y, wh[1], wh[2]) :
        x \in {0, 20}, y \in {0, 6, 30}, wh \in {<<6, 4>>, <<40, 30>>, <<4, 12>>}}

InitCompare ==
    /\ textmap = ZeroMap /\ linkmap = ZeroMap /\ link_rows = ImgH
    /\ text_threshold = 7 /\ link_threshold = 4 /\ low_text = 4
    /\ poly = FALSE
    /\ entry = "compare_boxes"
    /\ pc = "compare"
    /\ Idle
    /\ args \in CompareBoxChoices \X CompareBoxChoices
    /\ ret = None

CompareCall ==
    /\ pc = "compare"
    /\ ret' = compare_boxes(args[1], args[2])
    /\ pc' = "compared"
    /\ UNCHANGED <<inputs, labels, k, det, mapper, num_characters,
                   avg_character_sizes, word_id, polys, args>>

SpecCompare == InitCompare /\ [][CompareCall]_vars

---------------------------------------------------------------------------
(* adjustResultCoordinates.                                                *)

MaxPolys == 2

\* a rescale that multiplies both coordinates by ratio_w * ratio_net
adjustWithOneRatio(ps, ratio_w, ratio_h, ratio_net) ==
    IF Len(ps) > 0
    THEN [i \in 1..Len(ps) |->
            IF ps[i] # None
            THEN [j \in 1..Len(ps[i]) |->
                    <<ps[i][j][1] * (ratio_w * ratio_net),
                      ps[i][j][2] * (ratio_w * ratio_net)>>]
            ELSE ps[i]]
    ELSE ps

\* lines 508-513
adjustResultCoordinates(ps, ratio_w, ratio_h, ratio_net) ==
    IF Len(ps) > 0
    THEN [i \in 1..Len(ps) |->
            IF ps[i] # None
            THEN [j \in 1..Len(ps[i]) |->
                    <<ps[i][j][1] * (ratio_w * ratio_net),
                      ps[i][j][2] * (ratio_h * ratio_net)>>]
            ELSE ps[i]]
    ELSE ps

PolyChoices ==
    {None, <<<<1, 1>>>>, <<<<1, 1>>, <<2, 3>>>>, <<<<0, 5>>, <<4, 0>>, <<3, 3>>>>}

InitRescale ==
    /\ textmap = ZeroMap /\ linkmap = ZeroMap /\ link_rows = ImgH
    /\ text_threshold = 7 /\ link_threshold = 4 /\ low_text = 4
    /\ poly = FALSE
    /\ entry = "adjustResultCoordinates"
    /\ pc = "rescale"
    /\ Idle
    /\ args \in SeqsUpTo(PolyChoices, MaxPolys) \X {1, 2, 3} \X {1, 2, 3} \X {1, 2}
    /\ ret = None

Rescale ==
    /\ pc = "rescale"
    /\ ret' = adjustResultCoordinates(args[1], args[2], args[3], args[4])
    /\ pc' = "rescaled"
    /\ UNCHANGED <<inputs, labels, k, det, mapper, num_characters,
                   avg_character_sizes, word_id, polys, args>>

SpecRescale == InitRescale /\ [][Rescale]_vars

---------------------------------------------------------------------------
(* The linking loop on the boxes of heatmaps larger than ImgW by ImgH, of  *)
(* which only the boxes are kept: text lines far enough apart for chains.  *)

MaxLinked == 3

\* where a box may lie: two columns, four rows of text
LinkPositions == {0, 20} \X {0, 8, 16, 40}

LinkShapes == {<<6, 4>>, <<4, 6>>}

\* the boxes of components at distinct positions, in the raster order of
\* the labels
LinkedBoxLists ==
    {q \in SeqsUpTo(LinkPositions \X LinkShapes, MaxLinked) :
        \A i \in 1..(Len(q) - 1) :
            \/ q[i][1][2] < q[i + 1][1][2]
            \/ q[i][1][2] = q[i + 1][1][2] /\ q[i][1][1] < q[i + 1][1][1]}

\* line 283 reached: the label loop has ended with these boxes
InitLink ==
    /\ textmap = ZeroMap /\ linkmap = ZeroMap /\ link_rows = ImgH
    /\ text_threshold = 7 /\ link_threshold = 4 /\ low_text = 4
    /\ poly = FALSE
    /\ entry = "getDetBoxes_core"
    /\ pc = "labels"
    /\ labels = ZeroMap /\ k = 1
    /\ \E q \in LinkedBoxLists :
        det = [i \in 1..Len(q) |-> BoxAt(q[i][1][1], q[i][1][2], q[i][2][1], q[i][2][2])]
    /\ mapper = [i \in 1..Len(det) |-> i]
    /\ num_characters = [i \in 1..Len(det) |-> 2]
    /\ avg_character_sizes = [i \in 1..Len(det) |-> [num |-> 48, den |-> 2]]
    /\ word_id = <<>> /\ polys = <<>>
    /\ args = <<>> /\ ret = None

\* getDetBoxes on heatmaps, or the linking loop on boxes further apart
InitDetLink == Init \/ InitLink

SpecDetLink == InitDetLink /\ [][Next]_vars

---------------------------------------------------------------------------
(* The claims.                                                             *)

InCore == entry = "getDetBoxes" /\ pc \in {"labels", "link", "poly", "done"}

AfterLabels == entry = "getDetBoxes" /\ pc \in {"link", "poly", "done"}

AfterLinking == entry = "getDetBoxes" /\ pc \in {"poly", "done"}

\* C1: in a call of getDetBoxes the per-box lists det, mapper, num_characters
\* and avg_character_sizes have one length after every iteration of the
\* per-label loop, word_id has that length once it is made, every iteration
\* of the per-box loop of getPoly_core adds exactly one entry to polys, and
\* the record returned has six lists of one length.
C1_ListsAligned ==
    /\ InCore => /\ Len(det) = Len(mapper)
                 /\ Len(det) = Len(num_characters)
                 /\ Len(det) = Len(avg_character_sizes)
    /\ AfterLabels => Len(word_id) = Len(det)
    /\ pc = "poly" => Len(polys) = k
    /\ pc = "done" => Len(polys) = Len(det) /\ Len(det) = Len(mapper)

\* C1 witness: a record returned with polygons asked for, at least two boxes
\* and at least one label that was skipped.
C1_Witness ==
    /\ entry = "getDetBoxes" /\ pc = "done" /\ poly
    /\ Len(det) >= 2
    /\ nLabelsOf(labels) - 1 > Len(det)
    /\ Len(polys) = Len(det)

\* C2: every box the per-label loop appends is in TL, TR, BR, BL order: an
\* upright rectangle (l,t),(r,t),(r,b),(l,b) comes out as exactly that
\* sequence, whether it is wide, square or tall.
C2_BoxesTopLeftFirst ==
    entry = "getDetBoxes" =>
        \A i \in 1..Len(det) : det[i] = BoundingBox({det[i][j] : j \in 1..4})

ForegroundParts(i) == Components(Segmap(labels, mapper[i], text_score, link_score))

\* C3: num_characters of a box is the number of 4-connected foreground
\* components of its label's mask without the link-only pixels, and
\* average_character_size is the mean area of those components.
C3_CountsForegroundOnly ==
    InCore =>
        \A i \in 1..Len(mapper) :
            /\ num_characters[i] = Len(ForegroundParts(i))
            /\ Len(ForegroundParts(i)) > 0 =>
                 avg_character_sizes[i].num * Len(ForegroundParts(i))
                    = avg_character_sizes[i].den
                        * SumSeq([j \in 1..Len(ForegroundParts(i)) |->
                                    Cardinality(ForegroundParts(i)[j])])

IsFilledRect(S) ==
    LET st == StatsOf(S)
    IN  S = Rect(st.left, st.top, st.width, st.height)

\* the text mask is two filled rectangles, one above the other with a gap,
\* both reaching text_threshold, and the link mask joins them into the one
\* component of the combined mask, whose area is at least 10
StackedPairBridged ==
    LET ts == threshold(textmap, low_text)
        ls == threshold(linkmap, link_threshold)
        tc == Components(ts)
    IN  /\ link_rows = ImgH
        /\ Len(tc) = 2
        /\ IsFilledRect(tc[1]) /\ IsFilledRect(tc[2])
        /\ StatsOf(tc[1]).left = StatsOf(tc[2]).left
        /\ StatsOf(tc[1]).width = StatsOf(tc[2]).width
        /\ StatsOf(tc[1]).top + StatsOf(tc[1]).height < StatsOf(tc[2]).top
        /\ \A i \in 1..2 : \E p \in tc[i] : textmap[p] >= text_threshold
        /\ Len(Components(ts \cup ls)) = 1
        /\ Cardinality(ts \cup ls) >= 10

\* C4 as stated: two stacked rectangles bridged by link pixels give two
\* boxes, and word_id of the top one is the index of the bottom one.
C4_TwoBoxesLinked ==
    (AfterLinking /\ StackedPairBridged) => Len(det) = 2 /\ word_id[1] = 1

\* C4 as amended: two stacked rectangles bridged by link pixels are one
\* component of the combined mask and give exactly one box, with its label
\* in mapper and word_id = [-1].
C4_BridgedPairIsOneBox ==
    (AfterLinking /\ StackedPairBridged) =>
        /\ Len(det) = 1
        /\ mapper = <<1>>
        /\ word_id = <<-1>>

\* C4 witness: the call has returned for such an input.
C4_Witness ==
    /\ pc = "done" /\ entry = "getDetBoxes"
    /\ StackedPairBridged
    /\ Len(det) = 1

Matches(i) ==
    {j \in 0..(Len(det) - 1) :
        j # i /\ compare_boxes(det[i + 1], det[j + 1]) = "True"}

\* C5: once the outer linking loop has handled box i, word_id[i] is the
\* largest j # i with compare_boxes(box_i, box_j) true and -1 when there is
\* none; so it is -1 or an index of boxes, and never i.
C5_WordIdIsLastMatch ==
    (entry = "getDetBoxes" /\ pc \in {"link", "poly", "done"}) =>
        \A i \in 0..(Len(det) - 1) :
            (pc = "link" => i < k) =>
                /\ word_id[i + 1] = IF Matches(i) = {} THEN -1 ELSE SetMax(Matches(i))
                /\ word_id[i + 1] \in -1..(Len(det) - 1)
                /\ word_id[i + 1] # i

\* C5 witness: a box with two matches, linked to the later one.
C5_Witness ==
    /\ AfterLinking
    /\ \E i \in 0..(Len(det) - 1) :
        /\ Cardinality(Matches(i)) >= 2
        /\ word_id[i + 1] = SetMax(Matches(i))

\* C6 as stated: getPoly_core returns None for every box whose width or
\* height is below 10, lengths in [9, 10) included.
C6_RejectsBelowTen ==
    \A i \in 1..Len(polys) :
        (d2(det[i][1], det[i][2]) < 100 \/ d2(det[i][2], det[i][3]) < 100)
            => polys[i] = None

\* C6 as amended: getPoly_core returns None for every box whose width or
\* height is below 9.
C6_RejectsBelowNine ==
    \A i \in 1..Len(polys) :
        (d2(det[i][1], det[i][2]) < 81 \/ d2(det[i][2], det[i][3]) < 81)
            => polys[i] = None

\* C6 witness: a box with an edge below 9 was given None, and a box with an
\* edge in [9, 10) a polygon.
C6_Witness ==
    /\ entry = "getPoly_core" /\ pc = "done" /\ Len(polys) = 2
    /\ d2(det[1][1], det[1][2]) < 81 /\ polys[1] = None
    /\ d2(det[2][1], det[2][2]) \in 81..99 /\ polys[2] # None

OutOfRange(t) == t < 0 \/ t > 10

\* C7 as stated: a call with text_threshold, link_threshold or low_text
\* outside [0, 1] is rejected: it raises and goes no further.
C7_OutOfRangeRejected ==
    (/\ entry = "getDetBoxes" /\ pc # "start"
     /\ (OutOfRange(text_threshold) \/ OutOfRange(link_threshold) \/ OutOfRange(low_text)))
        => pc = "raised"

\* C7 as amended: getDetBoxes never looks at the range of its thresholds. A
\* call raises only when the two maps differ in shape or when the library is
\* handed a mask without pixels, and otherwise the label image is that of
\* the maps binarized at the thresholds as given, unclamped.
C7_ThresholdsUsedAsGiven ==
    entry = "getDetBoxes" =>
        /\ pc = "raised" =>
            \/ link_rows # ImgH
            \/ Segmap(labels, k, threshold(textmap, low_text),
                      threshold(linkmap, link_threshold)) = {}
        /\ pc \in {"labels", "link", "poly", "done"} =>
            labels = connectedComponents(threshold(textmap, low_text)
                                            \cup threshold(linkmap, link_threshold))

\* C7 witness: a record returned for a low_text below 0, whose one box is
\* that of the whole image.
C7_Witness ==
    /\ entry = "getDetBoxes" /\ pc = "done"
    /\ low_text < 0
    /\ Len(det) = 1
    /\ \A p \in Pix : labels[p] = 1

\* C8: no component of the combined mask with fewer than 10 pixels gives a
\* box: every label in mapper has area >= 10, and when every component is
\* below 10 all per-box lists are empty.
C8_NoBoxBelowTenPixels ==
    InCore =>
        /\ \A i \in 1..Len(mapper) : Cardinality(LabelPixels(labels, mapper[i])) >= 10
        /\ (AfterLabels /\ \A id \in 1..(nLabelsOf(labels) - 1) :
                                Cardinality(LabelPixels(labels, id)) < 10)
                => /\ det = <<>> /\ mapper = <<>> /\ num_characters = <<>>
                   /\ avg_character_sizes = <<>> /\ word_id = <<>> /\ polys = <<>>

\* C8 witness: the call has returned for a map whose one component has 5
\* pixels, with no box.
C8_Witness ==
    /\ entry = "getDetBoxes" /\ pc = "done"
    /\ nLabelsOf(labels) = 2
    /\ Cardinality(LabelPixels(labels, 1)) = 5
    /\ det = <<>>

\* C9: adjustResultCoordinates keeps length and order, maps every point
\* (x, y) of an entry that is not None to (x * ratio_w * ratio_net,
\* y * ratio_h * ratio_net), passes None through, and returns an empty input
\* as it is; with ratios (2, 2, 2) the point (1, 1) becomes (4, 4).
C9_RescaleLaw ==
    pc = "rescaled" =>
        /\ Len(ret) = Len(args[1])
        /\ \A i \in 1..Len(args[1]) :
            IF args[1][i] = None THEN ret[i] = None
            ELSE /\ Len(ret[i]) = Len(args[1][i])
                 /\ \A j \in 1..Len(args[1][i]) :
                        /\ ret[i][j][1] = args[1][i][j][1] * args[2] * args[4]
                        /\ ret[i][j][2] = args[1][i][j][2] * args[3] * args[4]
        /\ args[1] = <<>> => ret = <<>>
        /\ (args[2] = 2 /\ args[3] = 2 /\ args[4] = 2) =>
                \A i \in 1..Len(args[1]) : \A j \in 1..Len(args[1][i]) :
                    args[1][i][j] = <<1, 1>> => ret[i][j] = <<4, 4>>

\* C9 witness: a None entry and a polygon rescaled with ratio_w # ratio_h.
C9_Witness ==
    /\ pc = "rescaled"
    /\ Len(args[1]) = 2 /\ args[1][1] = None /\ args[1][2] # None
    /\ args[2] # args[3]
    /\ ret[1] = None /\ ret[2] # args[1][2]

\* what C10 says compare_boxes computes: each slope from its own box's
\* differences, and the midpoint of box2's edge (k, l)
ClaimedCompare(box1, box2) ==
    /\ IsAbove(box1, box2)
    /\ \E ij \in Perm2 : \E kl \in Perm2 :
        /\ SlopesClose(Slope(box1[ij[1] + 1][2] - box1[ij[2] + 1][2],
                             box1[ij[1] + 1][1] - box1[ij[2] + 1][1]),
                       Slope(box2[kl[1] + 1][2] - box2[kl[2] + 1][2],
                             box2[kl[1] + 1][1] - box2[kl[2] + 1][1]))
        /\ MidpointsClose(box1[ij[1] + 1], box1[ij[2] + 1],
                          box2[kl[1] + 1], box2[kl[2] + 1])

\* C10: compare_boxes(box1, box2) is true exactly when box1's centroid is
\* above box2's and an edge of box1 and an edge of box2 have slopes, each
\* from its own box, that differ by less than 0.1 and midpoints less than
\* 10 apart in L1 distance.
C10_CompareIsEdgeMatch ==
    pc = "compared" => ((ret = "True") <=> ClaimedCompare(args[1], args[2]))

\* four times the y of a box's centroid
CentroidY4(box) == box[1][2] + box[2][2] + box[3][2] + box[4][2]

\* the number of links followed from box i before -1, at most fuel of them
RECURSIVE Hops(_, _)
Hops(i, fuel) ==
    IF fuel = 0 \/ word_id[i + 1] = -1 THEN 0
    ELSE 1 + Hops(word_id[i + 1], fuel - 1)

\* C11: the relation word_id encodes is acyclic. Whenever word_id[i] = j the
\* centroid of box i is strictly higher up (smaller y) than that of box j,
\* so no box points at itself, no two boxes point at each other, and
\* following the links from any box goes through fewer than len(boxes)
\* links before it reaches -1.
C11_WordIdAcyclic ==
    pc \in {"link", "poly", "done"} =>
        \A i \in 0..(Len(det) - 1) :
            /\ word_id[i + 1] # -1 =>
                /\ word_id[i + 1] \in 0..(Len(det) - 1)
                /\ CentroidY4(det[i + 1]) < CentroidY4(det[word_id[i + 1] + 1])
                /\ word_id[i + 1] # i
                /\ word_id[word_id[i + 1] + 1] # i
            /\ Hops(i, Len(det)) < Len(det)

\* C11 witness: a chain of two links, box to box to box, that ends in -1.
C11_Witness ==
    /\ pc = "done"
    /\ \E i \in 0..(Len(det) - 1) :
        /\ Hops(i, Len(det)) = 2
        /\ word_id[i + 1] # -1
        /\ word_id[word_id[i + 1] + 1] # -1

===========================================================================
